---- MODULE Spec2Model ----
(***************************************************************************)
(* Hackflight::init / Hackflight::update (hackflight.hpp): the fixed-order *)
(* sensor/control loop and its arming / failsafe state machine.            *)
(*                                                                         *)
(* Floats are modelled as small integers: roll and pitch in                *)
(* -MaxAngle..MaxAngle, yaw in units of pi/YawPi.  One action models one   *)
(* of the five checks of update(), so the states between the actions are   *)
(* the intermediate states of a tick.  The diagnostic sample counters      *)
(* (gcount, acount, ...) are written but never read by the code and are    *)
(* left out.                                                               *)
(***************************************************************************)
EXTENDS Integers, Sequences, FiniteSets, TLC

\* ------------------------------------------------------------------ bounds
MaxAngle == 1          \* roll, pitch range over -MaxAngle..MaxAngle
MaxAux == 1            \* aux codes 0..MaxAux
MaxThrottle == 1       \* throttle levels 0..MaxThrottle, 0 is the minimum

\* Stabilizer::maxArmingAngle, in the units of roll and pitch
maxArmingAngle == 1

\* M_PI, in yaw units of pi/2; the board's yaw lies in (-YawPi, YawPi]
YawPi == 2

Angles == (0 - MaxAngle)..MaxAngle
BoardYaws == (1 - YawPi)..YawPi
\* values a yaw member can hold before it is first assigned: an unassigned
\* float is represented by any of the values the code can store there
FloatYaws == 0..(2 * YawPi - 1)
AuxCodes == 0..MaxAux
Throttles == 0..MaxThrottle
Collaborators == {"board", "receiver", "stabilizer", "mixer", "altitudeEstimator"}

VARIABLES
    pc,            \* 0: init() not yet called; 1..5: index in update() of the next check
    armed, failsafe, auxState, yawInitial, eulerAngles,   \* Hackflight members
    demands,       \* receiver->demands
    initOk,        \* whether every collaborator's init() succeeded
    lastStep,      \* name of the method that ran last
    inp,           \* what the sources returned to the last step
    calls,         \* collaborator calls made by the last step, in order
    wrote,         \* members assigned by the last step
    armedAtStart,  \* armed when the current tick began
    downAtStart,   \* throttleIsDown() when the current tick began
    lostTrue,      \* lostSignal() was called and returned true in the current tick
    cutCount,      \* number of Mixer.cutMotors calls in the current tick
    runArg,        \* <<demands>> passed to Mixer.runArmed by the last step, else <<>>
    shown          \* the value last passed to Board.showArmedStatus since init()

hfvars == <<armed, failsafe, auxState, yawInitial, eulerAngles>>
tickvars == <<armedAtStart, downAtStart, lostTrue, cutCount>>
vars == <<pc, armed, failsafe, auxState, yawInitial, eulerAngles, demands, initOk,
          lastStep, inp, calls, wrote, armedAtStart, downAtStart, lostTrue, cutCount,
          runArg, shown>>

\* ----------------------------------------------------------------- helpers
Abs(x) == IF x < 0 THEN 0 - x ELSE x

RECURSIVE Count(_, _)
Count(s, c) == IF s = <<>> THEN 0
               ELSE (IF s[1] = c THEN 1 ELSE 0) + Count(Tail(s), c)

\* got: the source had new data; lost: the receiver's signal is timed out;
\* arming, disarming: what Receiver::arming() and disarming() return;
\* sample: <<roll, pitch, yaw>> delivered by Board::getEulerAngles
NoInput == [got |-> FALSE, lost |-> FALSE, arming |-> FALSE, disarming |-> FALSE,
            sample |-> <<>>]

\* the members of the Hackflight object, with the log of the running step
H == [armed |-> armed, failsafe |-> failsafe, auxState |-> auxState,
      yawInitial |-> yawInitial, eulerAngles |-> eulerAngles,
      calls |-> <<>>, wrote |-> {}, runArg |-> <<>>]

\* Receiver::throttleIsDown()
throttleIsDown(d) == d.throttle = 0

\* ------------------------------------------------------- private methods
\* faulty variant: the arming angle itself counts as safe
safeAngle_Inclusive(h, axis) == Abs(h.eulerAngles[axis]) <= maxArmingAngle

safeAngle(h, axis) == Abs(h.eulerAngles[axis]) < maxArmingAngle

\* faulty variant: half a turn is added instead of a full one
NormalizeYaw_AddPi(yaw) == IF yaw < 0 THEN yaw + YawPi ELSE yaw

\* heading from [-pi,+pi] to [0,2*pi]
NormalizeYaw(yaw) == IF yaw < 0 THEN yaw + 2 * YawPi ELSE yaw

\* faulty variant: the motors are not cut when the signal is lost
checkFailsafe_NoCut(h, lost) ==
    IF h.armed /\ lost
    THEN [h EXCEPT !.armed = FALSE, !.failsafe = TRUE,
                   !.calls = @ \o <<"showArmedStatus(false)">>,
                   !.wrote = @ \cup {"armed", "failsafe"}]
    ELSE h

\* faulty variant: failsafe follows the signal instead of latching
checkFailsafe_Resets(h, lost) ==
    IF h.armed /\ lost
    THEN [h EXCEPT !.armed = FALSE, !.failsafe = TRUE,
                   !.calls = @ \o <<"cutMotors", "showArmedStatus(false)">>,
                   !.wrote = @ \cup {"armed", "failsafe"}]
    ELSE [h EXCEPT !.failsafe = FALSE, !.wrote = @ \cup {"failsafe"}]

\* faulty variant: the signal loss is acted on whether or not the vehicle is armed
checkFailsafe_Unarmed(h, lost) ==
    IF lost
    THEN [h EXCEPT !.armed = FALSE, !.failsafe = TRUE,
                   !.calls = @ \o <<"cutMotors", "showArmedStatus(false)">>,
                   !.wrote = @ \cup {"armed", "failsafe"}]
    ELSE h

\* faulty variant: the status indicator is not updated on failsafe
checkFailsafe_NoShow(h, lost) ==
    IF h.armed /\ lost
    THEN [h EXCEPT !.armed = FALSE, !.failsafe = TRUE,
                   !.calls = @ \o <<"cutMotors">>,
                   !.wrote = @ \cup {"armed", "failsafe"}]
    ELSE h

checkFailsafe(h, lost) ==
    IF h.armed /\ lost
    THEN [h EXCEPT !.armed = FALSE, !.failsafe = TRUE,
                   !.calls = @ \o <<"cutMotors", "showArmedStatus(false)">>,
                   !.wrote = @ \cup {"armed", "failsafe"}]
    ELSE h

\* faulty variant: the throttle test is missing from the gate
RunGate_NoThrottle(h, d) == h.armed /\ ~h.failsafe

\* the gate in front of mixer.runArmed
RunGate(h, d) == h.armed /\ ~h.failsafe /\ ~throttleIsDown(d)

\* faulty variant: the motors are run before the failsafe check
GyroBody_GateFirst(h, d, lost, mod) ==
    LET h1 == [h EXCEPT !.calls = @ \o <<"Stabilizer.modifyDemands",
                                          "AltitudeEstimator.modifyDemands">>]
        h2 == IF RunGate(h1, d)
              THEN [h1 EXCEPT !.calls = @ \o <<"runArmed">>, !.runArg = <<mod>>]
              ELSE h1
    IN  checkFailsafe(h2, lost)

\* body of checkGyroRates once getGyroRates has returned true; d is
\* receiver->demands and mod the local copy of it as the two modifyDemands
\* calls leave it
GyroBody(h, d, lost, mod) ==
    LET h1 == [h EXCEPT !.calls = @ \o <<"Stabilizer.modifyDemands",
                                          "AltitudeEstimator.modifyDemands">>]
        h2 == checkFailsafe(h1, lost)
    IN  IF RunGate(h2, d)
        THEN [h2 EXCEPT !.calls = @ \o <<"runArmed">>, !.runArg = <<mod>>]
        ELSE h2

\* faulty variant: modifyDemands works on receiver->demands itself
GyroDemands_Aliased(d, mod) == mod

\* receiver->demands after checkGyroRates: the memcpy made the local a copy
GyroDemands(d, mod) == d

\* body of checkEulerAngles once getEulerAngles has returned true
EulerBody(h, roll, pitch, yaw) ==
    [h EXCEPT !.eulerAngles = [roll |-> roll, pitch |-> pitch, yaw |-> NormalizeYaw(yaw)],
              !.calls = @ \o <<"updateEulerAngles", "doSerialComms">>,
              !.wrote = @ \cup {"eulerAngles"}]

\* faulty variant: disarming asks for a level vehicle, as arming does
Disarm_NeedsSafeAngle(h, fr) ==
    IF h.armed /\ fr.disarming /\ safeAngle(h, "roll") /\ safeAngle(h, "pitch")
    THEN [h EXCEPT !.armed = FALSE, !.wrote = @ \cup {"armed"}]
    ELSE h

Disarm(h, fr) ==
    IF h.armed /\ fr.disarming
    THEN [h EXCEPT !.armed = FALSE, !.wrote = @ \cup {"armed"}]
    ELSE h

\* faulty variant: the failsafe veto is missing from the arming guard
ArmGuard_NoFailsafe(h, fr) ==
    /\ ~h.armed
    /\ fr.arming
    /\ h.auxState = 0
    /\ safeAngle(h, "roll")
    /\ safeAngle(h, "pitch")

ArmGuard(h, fr) ==
    /\ ~h.armed
    /\ fr.arming
    /\ h.auxState = 0
    /\ ~h.failsafe
    /\ safeAngle(h, "roll")
    /\ safeAngle(h, "pitch")

\* faulty variant: arming does not grab the yaw
Arm_NoYawGrab(h, fr) ==
    IF ArmGuard(h, fr)
    THEN [h EXCEPT !.armed = TRUE, !.wrote = @ \cup {"armed"}]
    ELSE h

Arm(h, fr) ==
    IF ArmGuard(h, fr)
    THEN [h EXCEPT !.armed = TRUE, !.yawInitial = h.eulerAngles.yaw,
                   !.wrote = @ \cup {"armed", "yawInitial"}]
    ELSE h

\* faulty variant: the switch is handled on its level, not on its change
AuxSwitch_Level(h, fr) ==
    IF fr.aux # 0
    THEN [h EXCEPT !.auxState = fr.aux,
                   !.calls = @ \o <<"handleAuxSwitch">>,
                   !.wrote = @ \cup {"auxState"}]
    ELSE [h EXCEPT !.auxState = fr.aux, !.wrote = @ \cup {"auxState"}]

AuxSwitch(h, fr) ==
    IF fr.aux # h.auxState
    THEN [h EXCEPT !.auxState = fr.aux,
                   !.calls = @ \o <<"handleAuxSwitch">>,
                   !.wrote = @ \cup {"auxState"}]
    ELSE h

\* faulty variant: the throttle-down cutoff also disarms
ThrottleCut_Disarms(h, d) ==
    IF h.armed /\ throttleIsDown(d)
    THEN [h EXCEPT !.armed = FALSE, !.calls = @ \o <<"cutMotors">>,
                   !.wrote = @ \cup {"armed"}]
    ELSE h

ThrottleCut(h, d) ==
    IF h.armed /\ throttleIsDown(d)
    THEN [h EXCEPT !.calls = @ \o <<"cutMotors">>]
    ELSE h

ShowStatus(h) ==
    [h EXCEPT !.calls = @ \o <<IF h.armed THEN "showArmedStatus(true)"
                                          ELSE "showArmedStatus(false)">>]

\* faulty variant: the arm rule is evaluated before the disarm rule
ReceiverBody_ArmFirst(h, fr) ==
    LET d  == [throttle |-> fr.throttle, aux |-> fr.aux]
        h1 == [h EXCEPT !.calls = @ \o (<<"updateDemands">> \o
                          (IF throttleIsDown(d) THEN <<"resetIntegral">> ELSE <<>>))]
    IN  ShowStatus(ThrottleCut(AuxSwitch(Disarm(Arm(h1, fr), fr), fr), d))

\* faulty variant: auxState is updated before the arm / disarm evaluation
ReceiverBody_AuxFirst(h, fr) ==
    LET d  == [throttle |-> fr.throttle, aux |-> fr.aux]
        h1 == [h EXCEPT !.calls = @ \o (<<"updateDemands">> \o
                          (IF throttleIsDown(d) THEN <<"resetIntegral">> ELSE <<>>))]
    IN  ShowStatus(ThrottleCut(Arm(Disarm(AuxSwitch(h1, fr), fr), fr), d))

\* body of checkReceiver once getDemands has returned true; fr is the frame
ReceiverBody(h, fr) ==
    LET d  == [throttle |-> fr.throttle, aux |-> fr.aux]
        h1 == [h EXCEPT !.calls = @ \o (<<"updateDemands">> \o
                          (IF throttleIsDown(d) THEN <<"resetIntegral">> ELSE <<>>))]
    IN  ShowStatus(ThrottleCut(AuxSwitch(Arm(Disarm(h1, fr), fr), fr), d))

\* faulty variant: a step without a new frame runs the body on the old demands
ReceiverStep_NoReturn(h, got, fr) == ReceiverBody(h, fr)

\* checkReceiver: returns at once when getDemands has no new frame
ReceiverStep(h, got, fr) == IF got THEN ReceiverBody(h, fr) ELSE h

\* faulty variant: the receiver is polled before the attitude
UpdateOrder_ReceiverFirst == <<"checkGyroRates", "checkReceiver", "checkEulerAngles",
                               "checkAccelerometer", "checkBarometer">>

\* the order in which update() calls the checks
UpdateOrder == <<"checkGyroRates", "checkEulerAngles", "checkReceiver",
                 "checkAccelerometer", "checkBarometer">>

Pos(name) == CHOOSE i \in 1..Len(UpdateOrder) : UpdateOrder[i] = name

\* ------------------------------------------------------------ bookkeeping
RECURSIVE LastShown(_, _)
LastShown(s, old) ==
    IF s = <<>> THEN old
    ELSE IF s[Len(s)] = "showArmedStatus(true)" THEN "true"
    ELSE IF s[Len(s)] = "showArmedStatus(false)" THEN "false"
    ELSE LastShown(SubSeq(s, 1, Len(s) - 1), old)

\* h is the Hackflight object after the step, d the receiver's demands after it
Commit(name, h, d, in) ==
    /\ armed' = h.armed
    /\ failsafe' = h.failsafe
    /\ auxState' = h.auxState
    /\ yawInitial' = h.yawInitial
    /\ eulerAngles' = h.eulerAngles
    /\ demands' = d
    /\ calls' = h.calls
    /\ wrote' = h.wrote
    /\ inp' = in
    /\ lastStep' = name
    /\ pc' = (pc % Len(UpdateOrder)) + 1
    /\ armedAtStart' = IF pc = 1 THEN armed ELSE armedAtStart
    /\ downAtStart' = IF pc = 1 THEN throttleIsDown(demands) ELSE downAtStart
    /\ lostTrue' = ((pc # 1 /\ lostTrue) \/ (in.got /\ in.lost /\ armed))
    /\ cutCount' = (IF pc = 1 THEN 0 ELSE cutCount) + Count(h.calls, "cutMotors")
    /\ runArg' = h.runArg
    /\ shown' = LastShown(h.calls, shown)
    /\ UNCHANGED initOk

\* ---------------------------------------------------------------- actions
Init ==
    /\ pc = 0
    /\ armed \in BOOLEAN
    /\ failsafe \in BOOLEAN
    /\ auxState \in AuxCodes
    /\ yawInitial \in FloatYaws
    /\ eulerAngles \in [roll : Angles, pitch : Angles, yaw : FloatYaws]
    /\ demands \in [throttle : Throttles, aux : AuxCodes]
    /\ initOk = TRUE
    /\ lastStep = "none"
    /\ inp = NoInput
    /\ calls = <<>>
    /\ wrote = {}
    /\ armedAtStart = FALSE
    /\ downAtStart = FALSE
    /\ lostTrue = FALSE
    /\ cutCount = 0
    /\ runArg = <<>>
    /\ shown = "none"

\* Hackflight::init: every collaborator's init is called and its outcome is
\* not looked at; failed is the set of collaborators whose init failed
InitCall(failed) ==
    /\ pc = 0
    /\ initOk' = (failed = {})
    /\ armed' = FALSE
    /\ failsafe' = FALSE
    /\ calls' = <<"Board.init", "Receiver.init", "Stabilizer.init", "Mixer.init",
                  "AltitudeEstimator.init">>
    /\ wrote' = {"armed", "failsafe"}
    /\ lastStep' = "init"
    /\ pc' = 1
    /\ UNCHANGED <<auxState, yawInitial, eulerAngles, demands, inp, tickvars,
                   runArg, shown>>

\* init() with every collaborator initializing
init == InitCall({})

\* init() with one collaborator failing to initialize
initFailing == \E c \in Collaborators : InitCall({c})

checkGyroRates ==
    /\ pc = Pos("checkGyroRates")
    /\ \/ Commit("checkGyroRates", H, demands, NoInput)
       \/ \E lost \in BOOLEAN, mod \in [throttle : Throttles, aux : {demands.aux}] :
            Commit("checkGyroRates", GyroBody(H, demands, lost, mod),
                   GyroDemands(demands, mod),
                   \* lostSignal() is behind armed &&: unarmed, it is not called
                   [NoInput EXCEPT !.got = TRUE, !.lost = armed /\ lost])

checkEulerAngles ==
    /\ pc = Pos("checkEulerAngles")
    /\ \/ Commit("checkEulerAngles", H, demands, NoInput)
       \/ \E roll \in Angles, pitch \in Angles, yaw \in BoardYaws :
            Commit("checkEulerAngles", EulerBody(H, roll, pitch, yaw), demands,
                   [NoInput EXCEPT !.got = TRUE, !.sample = <<roll, pitch, yaw>>])

checkReceiver ==
    /\ pc = Pos("checkReceiver")
    /\ \E got \in BOOLEAN, fr \in [throttle : Throttles, aux : AuxCodes,
                                    arming : BOOLEAN, disarming : BOOLEAN] :
         \* without a new frame the receiver keeps its demands
         /\ ~got => (fr.throttle = demands.throttle /\ fr.aux = demands.aux)
         /\ Commit("checkReceiver", ReceiverStep(H, got, fr),
                   [throttle |-> fr.throttle, aux |-> fr.aux],
                   [NoInput EXCEPT !.got = got, !.arming = fr.arming,
                                   !.disarming = fr.disarming])

checkAccelerometer ==
    /\ pc = Pos("checkAccelerometer")
    /\ \E got \in BOOLEAN :
         Commit("checkAccelerometer",
                IF got THEN [H EXCEPT !.calls = <<"updateAccel">>] ELSE H,
                demands, [NoInput EXCEPT !.got = got])

checkBarometer ==
    /\ pc = Pos("checkBarometer")
    /\ \E got \in BOOLEAN :
         Commit("checkBarometer",
                IF got THEN [H EXCEPT !.calls = <<"updateBaro">>] ELSE H,
                demands, [NoInput EXCEPT !.got = got])

Next ==
    \/ init
    \/ checkGyroRates
    \/ checkEulerAngles
    \/ checkReceiver
    \/ checkAccelerometer
    \/ checkBarometer

Spec == Init /\ [][Next]_vars

\* the runs in which a collaborator's init() may fail
NextInitFail == Next \/ initFailing

SpecInitFail == Init /\ [][NextInitFail]_vars

\* ------------------------------------------------------------ properties
Checks == {"checkGyroRates", "checkEulerAngles", "checkReceiver",
           "checkAccelerometer", "checkBarometer"}

\* a check of update() has just run (the step from the unprimed to the primed state)
Stepped(name) == pc # 0 /\ pc' # pc /\ lastStep' = name

EndOfTick == lastStep = "checkBarometer"

RollPitchSafe == /\ Abs(eulerAngles.roll) < maxArmingAngle
                 /\ Abs(eulerAngles.pitch) < maxArmingAngle

\* C1: Mixer.runArmed is invoked only by the gyro step, and only when armed is
\* true, failsafe is false and the receiver's throttle is not at minimum.
C1_RunArmedGated ==
    \A i \in 1..Len(calls) :
        calls[i] = "runArmed" =>
            /\ lastStep = "checkGyroRates"
            /\ inp.got
            /\ armed /\ ~failsafe
            /\ demands.throttle # 0

C1_Witness == lastStep = "checkGyroRates" /\ Count(calls, "runArmed") = 1

\* C2: after init(), in every state between the steps of a tick, failsafe
\* implies that armed is false.
C2_FailsafeImpliesDisarmed == pc # 0 => (failsafe => ~armed)

\* a frame with an arming edge, stored aux zero and level attitude arrived
\* while failsafe was set
C2_Witness ==
    /\ lastStep = "checkReceiver" /\ inp.got /\ inp.arming
    /\ failsafe /\ ~armed
    /\ auxState = 0 /\ "auxState" \notin wrote
    /\ RollPitchSafe

\* C3 as stated: a receiver step with a new frame, entered unarmed, arms iff
\* the frame has an arming edge, the frame's aux code is zero, failsafe is
\* false and |roll|, |pitch| < maxArmingAngle.
C3_ArmIffFrameAux ==
    [][(Stepped("checkReceiver") /\ inp'.got /\ ~armed) =>
          (armed' <=> (/\ inp'.arming
                       /\ demands'.aux = 0
                       /\ ~failsafe
                       /\ RollPitchSafe))]_vars

\* C3 amended: the same, with the aux condition on auxState, the aux code
\* stored before the step.
C3_ArmIffStoredAux ==
    [][(Stepped("checkReceiver") /\ inp'.got /\ ~armed) =>
          (armed' <=> (/\ inp'.arming
                       /\ auxState = 0
                       /\ ~failsafe
                       /\ RollPitchSafe))]_vars

\* the vehicle was armed by a frame whose own aux code is not zero
C3_Witness ==
    /\ lastStep = "checkReceiver" /\ inp.got /\ inp.arming
    /\ ~armedAtStart /\ armed
    /\ demands.aux # 0

\* C4: a tick that starts armed and in which lostSignal() returns true ends
\* with armed false, failsafe true and exactly one cutMotors call.
C4_ScenarioB ==
    (EndOfTick /\ armedAtStart /\ lostTrue) =>
        (~armed /\ failsafe /\ cutCount = 1)

\* such a tick: the failsafe fired in its gyro step
C4_Witness == EndOfTick /\ armedAtStart /\ lostTrue /\ cutCount = 1

\* C5: once failsafe is true after init(), it is true in every later state.
C5_StickyFailsafe == [][(pc # 0 /\ failsafe) => failsafe']_vars

\* failsafe has survived a whole tick in which it was not triggered
C5_Witness == EndOfTick /\ failsafe /\ ~lostTrue

\* C6 as stated: a disarming edge on an armed vehicle leaves armed false at
\* the end of the tick, whatever else the frame and the attitude are.
C6_DisarmAlways ==
    [][/\ (Stepped("checkReceiver") /\ inp'.got /\ inp'.disarming /\ armed) => ~armed'
       /\ (Stepped("checkAccelerometer") \/ Stepped("checkBarometer")) => armed' = armed]_vars

\* C6 amended: a disarming edge on an armed vehicle leaves armed false at the
\* end of the tick unless the same frame also carries an arming edge while
\* auxState is zero and roll and pitch are within the arming angle; then the
\* vehicle is armed again.
C6_DisarmUnlessRearmed ==
    [][/\ (Stepped("checkReceiver") /\ inp'.got /\ inp'.disarming /\ armed) =>
             (armed' <=> (inp'.arming /\ auxState = 0 /\ RollPitchSafe))
       /\ (Stepped("checkAccelerometer") \/ Stepped("checkBarometer")) => armed' = armed]_vars

\* a tick that started armed ends disarmed by a disarming edge at a steep attitude
C6_Witness ==
    /\ EndOfTick /\ armedAtStart /\ ~lostTrue /\ ~armed /\ ~failsafe
    /\ ~RollPitchSafe

\* C7 as stated: a tick in which the vehicle is armed and the throttle is at
\* minimum from start to end invokes cutMotors.
C7_CutEveryTick ==
    (EndOfTick /\ armedAtStart /\ downAtStart /\ armed /\ demands.throttle = 0) =>
        cutCount >= 1

\* C7 amended: a receiver step with a new frame invokes cutMotors exactly when
\* it ends armed with the throttle at minimum, and the cutoff leaves armed true.
C7_CutOnFrame ==
    (lastStep = "checkReceiver" /\ inp.got) =>
        /\ Count(calls, "cutMotors") = (IF armed /\ demands.throttle = 0 THEN 1 ELSE 0)
        /\ (Count(calls, "cutMotors") > 0 => armed)

C7_Witness ==
    /\ lastStep = "checkReceiver" /\ inp.got /\ armedAtStart /\ armed
    /\ Count(calls, "cutMotors") = 1

\* C8: yawInitial is written only by a receiver step whose arming rule takes
\* armed from false to true, and it is then the yaw held in eulerAngles; every
\* other step leaves it unchanged.
C8_YawInitialOnArming ==
    [][/\ (pc # 0 /\ yawInitial' # yawInitial) =>
             /\ Stepped("checkReceiver") /\ inp'.got
             /\ armed' /\ "armed" \in wrote'
       /\ (Stepped("checkReceiver") /\ armed' /\ "armed" \in wrote') =>
             /\ yawInitial' = eulerAngles.yaw
             /\ eulerAngles' = eulerAngles
       /\ pc = 0 => yawInitial' = yawInitial]_vars

\* armed in this tick, after an attitude sample with a negative yaw
C8_Witness ==
    /\ lastStep = "checkReceiver" /\ ~armedAtStart /\ armed
    /\ yawInitial = eulerAngles.yaw /\ yawInitial > YawPi

NextCheck(name) ==
    CASE name = "init" -> "checkGyroRates"
      [] name = "checkGyroRates" -> "checkEulerAngles"
      [] name = "checkEulerAngles" -> "checkReceiver"
      [] name = "checkReceiver" -> "checkAccelerometer"
      [] name = "checkAccelerometer" -> "checkBarometer"
      [] name = "checkBarometer" -> "checkGyroRates"
      [] OTHER -> "none"

\* C9: the checks run in the order gyro, attitude, receiver, accelerometer,
\* barometer, whether or not the earlier ones had data, and a check without new
\* data changes nothing and calls nothing.
C9_FixedOrder ==
    [][(pc # 0 /\ pc' # pc) =>
          /\ lastStep' = NextCheck(lastStep)
          /\ ~inp'.got => (/\ UNCHANGED <<hfvars, demands>>
                           /\ calls' = <<>> /\ wrote' = {})]_vars

\* the receiver had no frame in this tick (armed, throttle down, no cutoff)
\* and the barometer check after it ran with data
C9_Witness ==
    /\ EndOfTick /\ inp.got /\ calls = <<"updateBaro">>
    /\ armedAtStart /\ downAtStart /\ armed /\ demands.throttle = 0 /\ cutCount = 0

\* C10: when a collaborator's initialization fails, update() never runs.
C10_InitFailureFatal == ~initOk => lastStep \notin Checks

C12_FailsafeTrigger ==
    [][pc # 0 =>
          /\ (~failsafe /\ failsafe') =>
                /\ Stepped("checkGyroRates") /\ inp'.got /\ inp'.lost
                /\ armed /\ ~armed'
                /\ Count(calls', "cutMotors") = 1
                /\ calls'[Len(calls')] = "showArmedStatus(false)"
                /\ shown' = "false"
          /\ ~armed => failsafe' = failsafe]_vars

C12_Witness ==
    /\ lastStep = "checkGyroRates" /\ inp.got /\ inp.lost
    /\ failsafe /\ "failsafe" \in wrote /\ shown = "false"

\* C13: the gyro step that triggers failsafe does not invoke runArmed, and no
\* step after it does.
C13_FailsafeBeforeActuation ==
    [][(pc # 0 /\ (failsafe \/ failsafe')) =>
          /\ failsafe'
          /\ Count(calls', "runArmed") = 0
          /\ runArg' = <<>>]_vars

\* failsafe was triggered with the throttle up, where the gate would have opened
C13_Witness ==
    /\ lastStep = "checkGyroRates" /\ "failsafe" \in wrote /\ failsafe
    /\ demands.throttle # 0

\* C14: a receiver step without a new frame changes none of armed, failsafe,
\* auxState, yawInitial and makes no call, whatever edges the receiver would
\* report.
C14_NoFrameNoEffect ==
    [][(Stepped("checkReceiver") /\ ~inp'.got) =>
          /\ UNCHANGED <<armed, failsafe, auxState, yawInitial, demands>>
          /\ calls' = <<>>
          /\ cutCount' = (IF pc = 1 THEN 0 ELSE cutCount)
          /\ shown' = shown]_vars

\* no frame, while an arming edge would have armed the vehicle
C14_Witness ==
    /\ lastStep = "checkReceiver" /\ ~inp.got /\ inp.arming
    /\ ~armed /\ ~failsafe /\ auxState = 0 /\ RollPitchSafe
    /\ demands.throttle = 0

\* C15: a receiver step with a new frame invokes handleAuxSwitch iff the
\* frame's aux code differs from auxState, and ends with auxState equal to the
\* frame's aux code; a second frame with the same aux code does not invoke it.
C15_AuxEdge ==
    [][(Stepped("checkReceiver") /\ inp'.got) =>
          /\ Count(calls', "handleAuxSwitch") = (IF demands'.aux # auxState THEN 1 ELSE 0)
          /\ auxState' = demands'.aux
          /\ (auxState = demands.aux /\ demands'.aux = demands.aux) =>
                Count(calls', "handleAuxSwitch") = 0]_vars

\* a frame with a non-zero aux code that is not a change
C15_Witness ==
    /\ lastStep = "checkReceiver" /\ inp.got
    /\ demands.aux # 0 /\ auxState = demands.aux /\ "auxState" \notin wrote
    /\ Count(calls, "handleAuxSwitch") = 0

\* C16: the gyro step leaves receiver->demands as it was; what the two
\* modifyDemands calls change goes to runArmed only.
C16_DemandsCopied ==
    [][Stepped("checkGyroRates") =>
          /\ demands' = demands
          /\ Len(runArg') = Count(calls', "runArmed")]_vars

\* runArmed received demands that differ from the receiver's
C16_Witness ==
    /\ lastStep = "checkGyroRates" /\ Len(runArg) = 1
    /\ runArg[1] # demands

\* C17: a frame with both a disarming and an arming edge, on an armed vehicle
\* with auxState zero, no failsafe and roll and pitch within the arming angle,
\* leaves armed true and yawInitial rewritten with the current yaw.
C17_DisarmThenArm ==
    [][(/\ Stepped("checkReceiver") /\ inp'.got
        /\ armed /\ inp'.disarming /\ inp'.arming
        /\ auxState = 0 /\ ~failsafe /\ RollPitchSafe) =>
          /\ armed'
          /\ yawInitial' = eulerAngles.yaw
          /\ {"armed", "yawInitial"} \subseteq wrote']_vars

C17_Witness ==
    /\ lastStep = "checkReceiver" /\ inp.got /\ inp.arming /\ inp.disarming
    /\ armedAtStart /\ ~lostTrue /\ armed
    /\ "yawInitial" \in wrote /\ yawInitial = eulerAngles.yaw

\* C18: the arming guard sees the aux code of the frame before: an arming frame
\* that takes the aux code from zero to non-zero arms, one that takes it from
\* non-zero to zero does not.
C18_ArmGuardStaleAux ==
    [][(/\ Stepped("checkReceiver") /\ inp'.got
        /\ ~armed /\ inp'.arming /\ ~failsafe /\ RollPitchSafe) =>
          /\ (auxState = 0 /\ demands'.aux # 0) => armed'
          /\ (auxState # 0 /\ demands'.aux = 0) => ~armed']_vars

\* an arming frame on which the aux code changed from zero to non-zero
C18_Witness ==
    /\ lastStep = "checkReceiver" /\ inp.got /\ inp.arming
    /\ ~armedAtStart /\ armed
    /\ auxState # 0 /\ "auxState" \in wrote

\* C19: once showArmedStatus has been called after init(), the value it was
\* last given is the value of armed.
C19_StatusFollowsArmed ==
    (pc # 0 /\ shown # "none") => ((shown = "true") <=> armed)

\* the tick in which failsafe disarmed the vehicle ends with the status false
C19_Witness ==
    /\ EndOfTick /\ armedAtStart /\ lostTrue
    /\ shown = "false" /\ ~armed

TypeOK ==
    /\ pc \in 0..5
    /\ armed \in BOOLEAN /\ failsafe \in BOOLEAN
    /\ auxState \in AuxCodes
    /\ yawInitial \in FloatYaws
    /\ cutCount \in 0..2
====
